---- MODULE Spec2Model ----
(***************************************************************************)
(* Integrity scorer of the exam proctoring view (App component).           *)
(*                                                                         *)
(* Units.  Time is in milliseconds (Date.now()).  The score and the        *)
(* deductions are in thousandths of a point, so 100 points = 100000 and    *)
(* the recovery increment 0.05 = 50; every product deduction * multiplier  *)
(* of the code is a whole number of thousandths.  Landmark coordinates     *)
(* are normalized coordinates in hundredths.  Ratios (yaw, pitch, mouth    *)
(* openness) are kept as numerator/denominator pairs and compared by       *)
(* cross-multiplication, which gives the IEEE result also for a zero       *)
(* denominator (+-Infinity compares as the sign of the numerator, NaN      *)
(* compares false).                                                        *)
(*                                                                         *)
(* Every record constructor lists its fields in the order in which the     *)
(* names first occur in the module, the order TLC keeps records in.        *)
(***************************************************************************)
EXTENDS Integers, Sequences, FiniteSets, TLC

VARIABLES
  now,                  \* Date.now()
  burst,                \* detector callbacks delivered since the clock last advanced
  score,                \* useState(100)
  events,               \* useState<IntegrityEvent[]>([])
  status,               \* useState<DetectionStatus>(INITIAL_STATUS)
  config,               \* useState<AppConfig>(INITIAL_CONFIG)
  pfConfig,             \* config captured by the closure in processFrameRef.current
  lastEventTime,        \* useRef<number>(0)
  missingFaceStartTime, \* useRef<number | null>(null)
  lookingAwayStartTime, \* useRef<number | null>(null)
  talkingStartTime,     \* useRef<number | null>(null)
  latestFaceResults,    \* useRef<any>(null)
  latestHandResults,    \* useRef<any>(null)
  previousHandLandmarks,\* useRef<any[][]>([])
  camera,               \* "none" (not created), "idle" (start() pending),
                        \* "running", "failed" or "stopped"
  cameraPermission,     \* useState(false)
  demoTimer,            \* time the demo interval was armed or last fired
  aiTimer,              \* time the AI interval was armed or last fired
  pendingResets,        \* due times of the demo tick's setTimeout callbacks
  frame,                \* observation: what the last handler computed
  active,               \* let active = true of the initialization effect
  libs,                 \* window.FaceMesh && window.Hands && window.Camera
  initRetry,            \* due time of the pending setTimeout(initAI, 500)
  loadingTimer,         \* due time of the pending loading timeout (timeoutId)
  isLoading,            \* useState(true)
  detectors,            \* FaceMesh and Hands instances: "none", "open" or "closed"
  aiResult,             \* status of useState<AIAnalysisResult>
  showVisualization,    \* useState(false)
  restartPending,       \* a camera.start() of the pause effect has not settled
  viz                   \* the Visualization component: window.THREE loaded (three),
                        \* where the init of the mounted instance stands (phase:
                        \* "none", "retry", "starting" or "ready"), whether the
                        \* cameraFeed.start() of a torn-down instance is pending
                        \* (pendingStart), and what torn-down instances have left
                        \* scheduled (orphans)

vars == <<now, burst, score, events, status, config, pfConfig, lastEventTime,
          missingFaceStartTime, lookingAwayStartTime, talkingStartTime,
          latestFaceResults, latestHandResults, previousHandLandmarks,
          camera, cameraPermission, demoTimer, aiTimer, pendingResets, frame,
          active, libs, initRetry, loadingTimer, isLoading, detectors, aiResult,
          showVisualization, restartPending, viz>>

\* the state of the initialization effect besides the camera
lifecycle == <<active, libs, initRetry, loadingTimer, detectors>>

\* the state of the effect that pauses the main camera
pause == <<showVisualization, restartPending>>

\* the state of the App component, without the Visualization's own
app == <<now, burst, score, events, status, config, pfConfig, lastEventTime,
         missingFaceStartTime, lookingAwayStartTime, talkingStartTime,
         latestFaceResults, latestHandResults, previousHandLandmarks,
         camera, cameraPermission, demoTimer, aiTimer, pendingResets, frame,
         active, libs, initRetry, loadingTimer, isLoading, detectors, aiResult,
         showVisualization, restartPending>>

----------------------------------------------------------------------------
(* Bounds of the model *)

StartTime == 6000     \* Date.now() at mount; lastEventTime starts at 0, far in the past
TickMs    == 500      \* granularity of the clock
FineHorizon == 2000   \* the fine clock stops advancing at StartTime + FineHorizon
CoarseTickMs == 2000  \* granularity of the clock of the whole-session specifications
Horizon   == 6000     \* the coarse clock stops advancing at StartTime + Horizon
DrainFrames == 19     \* two-face frames already delivered in the drained initial state
MaxBurst  == 1        \* detector callbacks delivered between two advances of the clock
LiveHorizon == 12000  \* the clock of the steady-stream specification stops at StartTime + LiveHorizon
LiveDeadline == 10000 \* a persisting condition is given this long to get its event logged

(* Program constants *)

MAX_SCORE       == 100000  \* Math.min(100, ...)
YAW_THRESHOLD   == 20
PITCH_THRESHOLD == 20
TALK_THRESHOLD  == 5
WrittenLookDown == 80      \* config.examMode === 'Written' ? 0.8 : PITCH_THRESHOLD
NullTime        == 0       \* null start time; `!ref.current` is also true of 0
HandPoints      == 21      \* landmarks.length < 21

Max(a, b) == IF a > b THEN a ELSE b
Min(a, b) == IF a < b THEN a ELSE b
Abs(a)    == IF a < 0 THEN -a ELSE a

ExamModes == {"MCQ", "Coding", "Written"}

INITIAL_CONFIG ==
  [privacyMode |-> TRUE, invisibleProctor |-> FALSE, examMode |-> "MCQ",
   demoMode |-> FALSE, voiceActivityDetection |-> TRUE]

INITIAL_STATUS ==
  [faceDetected |-> FALSE, handsDetected |-> FALSE, isTalking |-> FALSE,
   isLookingAway |-> FALSE, multipleFaces |-> FALSE, handNearFace |-> FALSE]

----------------------------------------------------------------------------
(* Landmark sets.  A face landmark set is the record of the seven points   *)
(* the application reads (indices 1, 234, 454, 152, 10, 13, 14); a hand    *)
(* landmark set is the sequence of its points (index 0 = wrist at [1]).    *)

Pt(x, y) == <<x, y>>
NoPoint == <<>>       \* a landmark index the set does not hold (undefined)

Face(nose, upper, lower) ==
  [noseTip |-> nose, leftCheek |-> Pt(0, 50), rightCheek |-> Pt(100, 50),
   chin |-> Pt(50, 100), forehead |-> Pt(50, 0),
   upperLip |-> upper, lowerLip |-> lower]

FaceCenter  == Face(Pt(50, 50), Pt(50, 70), Pt(50, 70))  \* yaw 0,    pitch 0
FaceYaw30   == Face(Pt(80, 50), Pt(50, 70), Pt(50, 70))  \* yaw 0.30, pitch 0
FaceTalking == Face(Pt(50, 50), Pt(50, 65), Pt(50, 75))  \* mouth openness 0.10

\* A hand of n points: the wrist at w and every other point at w + (0, -span).
Hand(n, w, span) == [i \in 1..n |-> IF i = 1 THEN w ELSE Pt(w[1], w[2] - span)]

NoLandmarks == <<>>   \* an absent entry (undefined) of an array of landmark sets

\* A detector result: present = FALSE is the null ref; sets = multiFaceLandmarks
\* resp. multiHandLandmarks.
NullResults == [present |-> FALSE, sets |-> <<>>]
Results(sets) == [present |-> TRUE, sets |-> sets]

----------------------------------------------------------------------------
(* geometryUtils *)

\* yaw = yawNum / yawDen, pitch = pitchNum / pitchDen (doubled to stay integral)
calculateHeadPose(landmarks) ==
  LET noseTip    == landmarks.noseTip
      leftCheek  == landmarks.leftCheek
      rightCheek == landmarks.rightCheek
      chin       == landmarks.chin
      forehead   == landmarks.forehead
  IN IF NoPoint \in {noseTip, leftCheek, rightCheek, chin, forehead}
     THEN [yawNum |-> 0, yawDen |-> 1, pitchNum |-> 0, pitchDen |-> 1]
     ELSE [yawNum   |-> 2 * noseTip[1] - (leftCheek[1] + rightCheek[1]),
           yawDen   |-> 2 * Abs(rightCheek[1] - leftCheek[1]),
           pitchNum |-> 2 * noseTip[2] - (forehead[2] + chin[2]),
           pitchDen |-> 2 * Abs(chin[2] - forehead[2])]

SqDist(p, q) == (p[1] - q[1]) * (p[1] - q[1]) + (p[2] - q[2]) * (p[2] - q[2])

\* mouth openness = sqrt(sqNum / sqDen)
calculateMouthOpenness(landmarks) ==
  IF NoPoint \in {landmarks.upperLip, landmarks.lowerLip, landmarks.forehead, landmarks.chin}
  THEN [sqNum |-> 0, sqDen |-> 1]
  ELSE [sqNum |-> SqDist(landmarks.upperLip, landmarks.lowerLip),
        sqDen |-> SqDist(landmarks.forehead, landmarks.chin)]

\* num/den > thr/100 and num/den < -thr/100, den >= 0, as IEEE doubles compare
RatioGt(num, den, thr) == num * 100 > thr * den
RatioLt(num, den, thr) == num * 100 < thr * den

----------------------------------------------------------------------------
(* handMeshUtils *)

\* Math.sqrt of a squared distance, rounded down to a whole hundredth
RECURSIVE SqrtBetween(_, _, _)
SqrtBetween(n, lo, hi) ==
  IF lo >= hi THEN lo
  ELSE LET mid == (lo + hi + 1) \div 2
       IN IF mid * mid <= n THEN SqrtBetween(n, mid, hi) ELSE SqrtBetween(n, lo, mid - 1)

Sqrt(n) == SqrtBetween(n, 0, 200)

\* handSize < 0.05, as a comparison of squares
calculateHandSizeBelow(landmarks, thr) ==
  IF Len(landmarks) < HandPoints THEN 0 < thr
  ELSE SqDist(landmarks[13], landmarks[1]) < thr * thr

RECURSIVE TotalMovement(_, _, _)
TotalMovement(cur, prev, i) ==
  IF i > Min(Len(cur), Len(prev)) THEN 0
  ELSE Sqrt(SqDist(cur[i], prev[i])) + TotalMovement(cur, prev, i + 1)

\* movementSpeed > thr/100, with movementSpeed = totalMovement / currentLandmarks.length
calculateMovementSpeedAbove(currentLandmarks, previousLandmarks, thr) ==
  IF Len(currentLandmarks) < HandPoints \/ Len(previousLandmarks) < HandPoints
  THEN FALSE
  ELSE TotalMovement(currentLandmarks, previousLandmarks, 1) > thr * Len(currentLandmarks)

\* faceLandmarks is <<f>> for the face set f and <<>> for null.  The gesture only
\* feeds the description and the two disjuncts of suspiciousActivity that
\* isNearFace already implies.
analyzeHandActivity(landmarks, previousLandmarks, faceLandmarks) ==
  LET fast == previousLandmarks # NoLandmarks
              /\ calculateMovementSpeedAbove(landmarks, previousLandmarks, 10)
      isNearFace == faceLandmarks # <<>>
                    /\ SqDist(landmarks[1], faceLandmarks[1].noseTip) < 30 * 30
  IN [fast |-> fast,
      isNearFace |-> isNearFace,
      suspiciousActivity |-> isNearFace \/ fast \/ calculateHandSizeBelow(landmarks, 5)]

\* `nose.x` of analyzeHandActivity throws a TypeError when the face set holds
\* no landmark at index 1
analyzeHandActivityThrows(faceLandmarks) ==
  faceLandmarks # <<>> /\ faceLandmarks[1].noseTip = NoPoint

----------------------------------------------------------------------------
(* App: logEvent and processFrame.  A handler's run is threaded through a   *)
(* record c: last = lastEventTime.current, ev = events, calls = the kinds   *)
(* logEvent was called with in this run (observation only), and for         *)
(* processFrame also st = currentStatus, ded = deduction, la / talk / miss  *)
(* = the three start-time refs, prev = previousHandLandmarks.current, and   *)
(* the observations laDed, talkDed, missDed, handDed (which deductions the *)
(* run applied).                                                           *)

\* captureScreenshot that ignores the privacy toggle
captureScreenshot_Always(cfg) == TRUE

\* whether captureScreenshot returns an image: `if (!config.privacyMode) return undefined`
captureScreenshot(cfg) == cfg.privacyMode

\* logEvent with a debounce of 200 ms instead of 2000 ms
logEvent_ShortDebounce(c, t, type, severity, cfg) ==
  LET c1 == [c EXCEPT !.calls = Append(@, type)]
  IN IF t - c.last < 200 THEN c1
     ELSE [c1 EXCEPT !.last = t,
                     !.ev = Append(@, [type |-> type, severity |-> severity,
                                       timestamp |-> t,
                                       screenshot |-> captureScreenshot(cfg)])]

\* logEvent that does not record the time of the event it appends
logEvent_NoStamp(c, t, type, severity, cfg) ==
  LET c1 == [c EXCEPT !.calls = Append(@, type)]
  IN IF t - c.last < 2000 THEN c1
     ELSE [c1 EXCEPT !.ev = Append(@, [type |-> type, severity |-> severity,
                                       timestamp |-> t,
                                       screenshot |-> captureScreenshot(cfg)])]

\* logEvent that puts the new event in front of the earlier ones
logEvent_Prepend(c, t, type, severity, cfg) ==
  LET c1 == [c EXCEPT !.calls = Append(@, type)]
  IN IF t - c.last < 2000 THEN c1
     ELSE [c1 EXCEPT !.last = t,
                     !.ev = <<[type |-> type, severity |-> severity,
                               timestamp |-> t,
                               screenshot |-> captureScreenshot(cfg)]>> \o @]

\* logEvent that keeps only the new event
logEvent_Replace(c, t, type, severity, cfg) ==
  LET c1 == [c EXCEPT !.calls = Append(@, type)]
  IN IF t - c.last < 2000 THEN c1
     ELSE [c1 EXCEPT !.last = t,
                     !.ev = <<[type |-> type, severity |-> severity,
                               timestamp |-> t,
                               screenshot |-> captureScreenshot(cfg)]>>]

logEvent(c, t, type, severity, cfg) ==
  LET c1 == [c EXCEPT !.calls = Append(@, type)]
  IN IF t - c.last < 2000 THEN c1
     ELSE [c1 EXCEPT !.last = t,
                     !.ev = Append(@, [type |-> type, severity |-> severity,
                                       timestamp |-> t,
                                       screenshot |-> captureScreenshot(cfg)])]

\* isLookingAway whose lower pitch bound follows the exam mode as the upper one does
isLookingAway_SymmetricBand(pose, examMode) ==
  LET maxLookDown == IF examMode = "Written" THEN WrittenLookDown ELSE PITCH_THRESHOLD
  IN \/ RatioGt(Abs(pose.yawNum), pose.yawDen, YAW_THRESHOLD)
     \/ RatioLt(pose.pitchNum, pose.pitchDen, -maxLookDown)
     \/ RatioGt(pose.pitchNum, pose.pitchDen, maxLookDown)

isLookingAway(pose, examMode) ==
  LET maxLookDown == IF examMode = "Written" THEN WrittenLookDown ELSE PITCH_THRESHOLD
  IN \/ RatioGt(Abs(pose.yawNum), pose.yawDen, YAW_THRESHOLD)
     \/ RatioLt(pose.pitchNum, pose.pitchDen, -PITCH_THRESHOLD)
     \/ RatioGt(pose.pitchNum, pose.pitchDen, maxLookDown)

\* multipleFacesLogic that deducts only when its event passes the debounce
multipleFacesLogic_OnlyWhenLogged(c, n, t, cfg) ==
  IF n > 1
  THEN logEvent([c EXCEPT !.st.multipleFaces = TRUE,
                          !.ded = IF t - c.last < 2000 THEN @ ELSE @ + 5000],
                t, "MULTIPLE_FACES", "HIGH", cfg)
  ELSE c

multipleFacesLogic(c, n, t, cfg) ==
  IF n > 1
  THEN logEvent([c EXCEPT !.st.multipleFaces = TRUE, !.ded = @ + 5000],
                t, "MULTIPLE_FACES", "HIGH", cfg)
  ELSE c

\* lookingAwayLogic that logs without its own 5000 ms window
lookingAwayLogic_NoWindow(c, away, t, cfg) ==
  IF away
  THEN LET c1 == [c EXCEPT !.st.isLookingAway = TRUE]
       IN IF c1.la = NullTime THEN [c1 EXCEPT !.la = t]
          ELSE IF t - c1.la > 2000
               THEN logEvent([c1 EXCEPT !.ded = @ + 100, !.laDed = TRUE],
                             t, "LOOKING_AWAY", "MEDIUM", cfg)
               ELSE c1
  ELSE [c EXCEPT !.la = NullTime]

lookingAwayLogic(c, away, t, cfg) ==
  IF away
  THEN LET c1 == [c EXCEPT !.st.isLookingAway = TRUE]
       IN IF c1.la = NullTime THEN [c1 EXCEPT !.la = t]
          ELSE IF t - c1.la > 2000
               THEN LET c2 == [c1 EXCEPT !.ded = @ + 100, !.laDed = TRUE]
                    IN IF t - c2.last > 5000
                       THEN logEvent(c2, t, "LOOKING_AWAY", "MEDIUM", cfg)
                       ELSE c2
               ELSE c1
  ELSE [c EXCEPT !.la = NullTime]

talkingLogic(c, mouthOpen, t, cfg) ==
  IF RatioGt(mouthOpen.sqNum * 100, mouthOpen.sqDen, TALK_THRESHOLD * TALK_THRESHOLD)
     /\ cfg.voiceActivityDetection
  THEN LET c1 == [c EXCEPT !.st.isTalking = TRUE]
       IN IF c1.talk = NullTime THEN [c1 EXCEPT !.talk = t]
          ELSE IF t - c1.talk > 1500
               THEN LET c2 == [c1 EXCEPT !.ded = @ + 200, !.talkDed = TRUE]
                    IN IF t - c2.last > 4000
                       THEN logEvent(c2, t, "TALKING", "MEDIUM", cfg)
                       ELSE c2
               ELSE c1
  ELSE [c EXCEPT !.talk = NullTime]

\* the no-face branch that deducts but never logs
noFaceLogic_Silent(c, t, cfg) ==
  IF c.miss = NullTime THEN [c EXCEPT !.miss = t]
  ELSE IF t - c.miss > 3000
       THEN [c EXCEPT !.ded = @ + 500, !.missDed = TRUE]
       ELSE c

noFaceLogic(c, t, cfg) ==
  IF c.miss = NullTime THEN [c EXCEPT !.miss = t]
  ELSE IF t - c.miss > 3000
       THEN LET c1 == [c EXCEPT !.ded = @ + 500, !.missDed = TRUE]
            IN IF t - c1.last > 5000
               THEN logEvent(c1, t, "FACE_MISSING", "HIGH", cfg)
               ELSE c1
       ELSE c

faceLogic(c, faceResults, t, cfg) ==
  IF faceResults.present /\ Len(faceResults.sets) > 0
  THEN LET c1 == multipleFacesLogic([c EXCEPT !.st.faceDetected = TRUE],
                                    Len(faceResults.sets), t, cfg)
           landmarks == faceResults.sets[1]
           c2 == lookingAwayLogic(c1, isLookingAway(calculateHeadPose(landmarks),
                                                    cfg.examMode), t, cfg)
           c3 == talkingLogic(c2, calculateMouthOpenness(landmarks), t, cfg)
       IN [c3 EXCEPT !.miss = NullTime]
  ELSE noFaceLogic(c, t, cfg)

\* handEventLogic that logs without its own 3000 ms window
handEventLogic_NoWindow(c, handAnalysis, t, cfg) ==
  IF handAnalysis.isNearFace
  THEN logEvent(c, t, "HAND_NEAR_FACE", "HIGH", cfg)
  ELSE IF handAnalysis.fast
       THEN logEvent(c, t, "SUSPICIOUS_HAND_MOVEMENT", "MEDIUM", cfg)
       ELSE logEvent(c, t, "SUSPICIOUS_HAND_ACTIVITY", "MEDIUM", cfg)

handEventLogic(c, handAnalysis, t, cfg) ==
  IF t - c.last > 3000
  THEN IF handAnalysis.isNearFace
       THEN logEvent(c, t, "HAND_NEAR_FACE", "HIGH", cfg)
       ELSE IF handAnalysis.fast
            THEN logEvent(c, t, "SUSPICIOUS_HAND_MOVEMENT", "MEDIUM", cfg)
            ELSE logEvent(c, t, "SUSPICIOUS_HAND_ACTIVITY", "MEDIUM", cfg)
  ELSE c

\* the body of the hand loop without the check of the number of points
oneHandLogic_NoLengthCheck(c, landmarks, handIndex, faceResults, t, cfg) ==
  IF landmarks = NoLandmarks THEN c
  ELSE LET faceLandmarks == IF faceResults.present /\ Len(faceResults.sets) > 0
                            THEN <<faceResults.sets[1]>> ELSE <<>>
           previousLandmarks == IF handIndex <= Len(c.prev)
                                THEN c.prev[handIndex] ELSE NoLandmarks
           handAnalysis == analyzeHandActivity(landmarks, previousLandmarks, faceLandmarks)
           c1 == IF handAnalysis.suspiciousActivity
                 THEN handEventLogic([c EXCEPT !.ded = @ + 300, !.handDed = @ + 1],
                                     handAnalysis, t, cfg)
                 ELSE c
           c2 == IF handAnalysis.isNearFace
                 THEN [c1 EXCEPT !.st.handNearFace = TRUE] ELSE c1
       IN IF analyzeHandActivityThrows(faceLandmarks)
          THEN [c EXCEPT !.threw = TRUE]
          ELSE [c2 EXCEPT !.prev = [i \in 1..Max(Len(@), handIndex) |->
                                      IF i = handIndex THEN landmarks
                                      ELSE IF i <= Len(@) THEN @[i] ELSE NoLandmarks]]

\* the body of the loop over handResults.multiHandLandmarks; threw = the run
\* ended here with an exception
oneHandLogic(c, landmarks, handIndex, faceResults, t, cfg) ==
  IF landmarks = NoLandmarks \/ Len(landmarks) < HandPoints THEN c
  ELSE LET faceLandmarks == IF faceResults.present /\ Len(faceResults.sets) > 0
                            THEN <<faceResults.sets[1]>> ELSE <<>>
           previousLandmarks == IF handIndex <= Len(c.prev)
                                THEN c.prev[handIndex] ELSE NoLandmarks
           handAnalysis == analyzeHandActivity(landmarks, previousLandmarks, faceLandmarks)
           c1 == IF handAnalysis.suspiciousActivity
                 THEN handEventLogic([c EXCEPT !.ded = @ + 300, !.handDed = @ + 1],
                                     handAnalysis, t, cfg)
                 ELSE c
           c2 == IF handAnalysis.isNearFace
                 THEN [c1 EXCEPT !.st.handNearFace = TRUE] ELSE c1
       IN IF analyzeHandActivityThrows(faceLandmarks)
          THEN [c EXCEPT !.threw = TRUE]
          ELSE [c2 EXCEPT !.prev = [i \in 1..Max(Len(@), handIndex) |->
                                      IF i = handIndex THEN landmarks
                                      ELSE IF i <= Len(@) THEN @[i] ELSE NoLandmarks]]

RECURSIVE handLoop(_, _, _, _, _, _)
handLoop(c, sets, handIndex, faceResults, t, cfg) ==
  IF handIndex > Len(sets) \/ c.threw THEN c
  ELSE handLoop(oneHandLogic(c, sets[handIndex], handIndex, faceResults, t, cfg),
                sets, handIndex + 1, faceResults, t, cfg)

\* the hand branch that runs only when a face result is at hand
handLogic_NeedsFace(c, handResults, faceResults, t, cfg) ==
  IF faceResults.present /\ handResults.present /\ Len(handResults.sets) > 0
  THEN handLoop([c EXCEPT !.st.handsDetected = TRUE], handResults.sets, 1,
                faceResults, t, cfg)
  ELSE c

handLogic(c, handResults, faceResults, t, cfg) ==
  IF handResults.present /\ Len(handResults.sets) > 0
  THEN handLoop([c EXCEPT !.st.handsDetected = TRUE], handResults.sets, 1,
                faceResults, t, cfg)
  ELSE c

\* the multiplier that ignores the exam mode
multiplier10_Flat(examMode) == 10

\* setScore(prev => ...) of processFrame
multiplier10(examMode) ==
  IF examMode = "Written" THEN 8 ELSE IF examMode = "Coding" THEN 12 ELSE 10

\* the score update without Math.max(0, ...)
frameScore_NoFloor(prev, deduction, examMode) ==
  LET recovery == IF deduction > 0 THEN 0 ELSE 50
  IN Min(MAX_SCORE, prev - (deduction * multiplier10(examMode)) \div 10 + recovery)

\* the score update with the recovery scaled by the exam mode's multiplier
frameScore_ScaledRecovery(prev, deduction, examMode) ==
  LET recovery == IF deduction > 0 THEN 0 ELSE 50
  IN Max(0, Min(MAX_SCORE, prev - ((deduction - recovery) * multiplier10(examMode)) \div 10))

frameScore(prev, deduction, examMode) ==
  LET recovery == IF deduction > 0 THEN 0 ELSE 50
  IN Max(0, Min(MAX_SCORE, prev - (deduction * multiplier10(examMode)) \div 10 + recovery))

\* setScore(s => Math.max(0, s - 5)) of the demo tick and the AI flag
penaltyScore(s) == Max(0, s - 5000)

\* the run of processFrame over the two latest results, from the current refs
frameRun(faceResults, handResults, startLast, startEv, la, talk, miss, prev, t, cfg) ==
  LET c0 == [prev |-> prev, calls |-> <<>>, last |-> startLast, ev |-> startEv,
             st |-> INITIAL_STATUS, ded |-> 0,
             la |-> la, laDed |-> FALSE, talk |-> talk, talkDed |-> FALSE,
             miss |-> miss, missDed |-> FALSE, handDed |-> 0, threw |-> FALSE]
  IN handLogic(faceLogic(c0, faceResults, t, cfg), handResults, faceResults, t, cfg)

----------------------------------------------------------------------------
(* Inputs *)

HandFar   == Hand(21, Pt(0, 100), 20)
HandTiny  == Hand(21, Pt(0, 100), 2)     \* hand size 0.02
HandNear  == Hand(21, Pt(50, 60), 20)    \* 0.10 from the nose of every face
HandShort == Hand(20, Pt(50, 60), 20)    \* the same hand, one point short

NoFaces  == Results(<<>>)
TwoFaces == Results(<<FaceCenter, FaceCenter>>)
NoHands  == Results(<<>>)

AIStatuses == {"SAFE", "SUSPICIOUS", "ERROR"}

\* How the remote call of analyzeFrameWithPuter can end: window.puter absent,
\* the call rejected, a reply without content, a reply that is not JSON, and a
\* JSON reply whose status is SAFE, SUSPICIOUS or anything else.
AIOutcomes == {"noPuter", "rejected", "empty", "unparsable",
               "SAFE", "SUSPICIOUS", "other"}

\* the outcomes in which the remote call failed
AIFailures == {"noPuter", "rejected", "empty"}

\* analyzeFrameWithPuter that reports a failed call as a suspicious frame
analyzeFrameWithPuter_FailSuspicious(outcome) ==
  IF outcome \in {"noPuter", "rejected", "empty", "SUSPICIOUS"} THEN "SUSPICIOUS"
  ELSE "SAFE"

\* analyzeFrameWithPuter without its outer catch: a failed remote call
\* rejects the promise instead of resolving with a status
analyzeFrameWithPuter_NoCatch(outcome) ==
  IF outcome \in {"noPuter", "empty"} THEN "ERROR"
  ELSE IF outcome = "rejected" THEN "REJECTED"
  ELSE IF outcome = "SUSPICIOUS" THEN "SUSPICIOUS"
  ELSE "SAFE"

\* the status of the result analyzeFrameWithPuter returns
analyzeFrameWithPuter(outcome) ==
  IF outcome \in {"noPuter", "rejected", "empty"} THEN "ERROR"
  ELSE IF outcome = "SUSPICIOUS" THEN "SUSPICIOUS"
  ELSE "SAFE"

\* what the closures of processFrame and of the logEvent it calls read of config
Captured(cfg) ==
  [privacyMode |-> cfg.privacyMode, examMode |-> cfg.examMode,
   voiceActivityDetection |-> cfg.voiceActivityDetection]

\* The observation of a handler's run: which handler ran (op), the deduction
\* of the frame, the kinds logEvent was called with, which deductions applied,
\* whether the run ended with an exception (threw), and awaySince: the time of
\* the first frame of the unbroken run of frames flagged isLookingAway that
\* the last processed frame belongs to (NullTime when the last processed frame
\* was not flagged); talkSince likewise for the frames flagged isTalking and
\* missSince for the frames without a face.
NoFrame == [calls |-> <<>>, ded |-> 0, laDed |-> FALSE, talkDed |-> FALSE,
            missDed |-> FALSE, handDed |-> 0, threw |-> FALSE, op |-> "none",
            awaySince |-> NullTime, talkSince |-> NullTime, missSince |-> NullTime]

\* the start of the unbroken run of flagged frames after one more frame
Since(flagged, since, t) ==
  IF ~flagged THEN NullTime ELSE IF since = NullTime THEN t ELSE since

----------------------------------------------------------------------------
(* State machine *)

\* the Visualization before it was ever mounted
NoVisualization ==
  [three |-> FALSE, phase |-> "none", pendingStart |-> FALSE, orphans |-> {}]

Init ==
  /\ now = StartTime
  /\ burst = 0
  /\ score = 100000
  /\ events = <<>>
  /\ status = INITIAL_STATUS
  /\ config = INITIAL_CONFIG
  /\ pfConfig = Captured(INITIAL_CONFIG)
  /\ lastEventTime = 0
  /\ missingFaceStartTime = NullTime
  /\ lookingAwayStartTime = NullTime
  /\ talkingStartTime = NullTime
  /\ latestFaceResults = NullResults
  /\ latestHandResults = NullResults
  /\ previousHandLandmarks = <<>>
  /\ camera = "idle"
  /\ cameraPermission = FALSE
  /\ demoTimer = NullTime
  /\ aiTimer = NullTime
  /\ pendingResets = {}
  /\ frame = NoFrame
  /\ active = TRUE
  /\ libs = TRUE
  /\ initRetry = NullTime
  /\ loadingTimer = NullTime
  /\ isLoading = TRUE
  /\ detectors = "open"
  /\ aiResult = "INIT"
  /\ showVisualization = FALSE
  /\ restartPending = FALSE
  /\ viz = NoVisualization

\* The clock advances; the next camera frame may be delivered.  While
\* camera.start() is pending the clock stands still, and a timer callback that
\* is due runs before the clock advances again.
DemoTickDue == active /\ config.demoMode /\ now - demoTimer >= 1000

TimerDue(due) == due # NullTime /\ now >= due

Tick(ms, horizon) ==
  /\ now + ms <= StartTime + horizon
  /\ camera # "idle"
  /\ ~DemoTickDue
  /\ \A due \in pendingResets : due > now
  /\ ~TimerDue(initRetry)
  /\ ~TimerDue(loadingTimer)
  /\ now' = now + ms
  /\ burst' = 0
  /\ UNCHANGED <<viz, pause, score, events, status, config, pfConfig, lastEventTime,
                 missingFaceStartTime, lookingAwayStartTime, talkingStartTime,
                 latestFaceResults, latestHandResults, previousHandLandmarks,
                 camera, cameraPermission, demoTimer, aiTimer, pendingResets, frame,
                 lifecycle, isLoading, aiResult>>

\* processFrameRef.current() over the given latest results.  A run that throws
\* never reaches setStatus and setScore; what it did before stays done.
processFrame(op, faceResults, handResults) ==
  \E c \in {frameRun(faceResults, handResults, lastEventTime, events,
                       lookingAwayStartTime, talkingStartTime, missingFaceStartTime,
                       previousHandLandmarks, now, pfConfig)} :
     /\ status' = IF c.threw THEN status ELSE c.st
     /\ score' = IF c.threw THEN score ELSE frameScore(score, c.ded, pfConfig.examMode)
     /\ events' = c.ev
     /\ lastEventTime' = c.last
     /\ lookingAwayStartTime' = c.la
     /\ talkingStartTime' = c.talk
     /\ missingFaceStartTime' = c.miss
     /\ previousHandLandmarks' = c.prev
     /\ frame' = [calls |-> c.calls, ded |-> c.ded, laDed |-> c.laDed,
                  talkDed |-> c.talkDed, missDed |-> c.missDed, handDed |-> c.handDed,
                  threw |-> c.threw, op |-> op,
                  awaySince |-> Since(c.st.isLookingAway, frame.awaySince, now),
                  talkSince |-> Since(c.st.isTalking, frame.talkSince, now),
                  missSince |-> Since(~c.st.faceDetected, frame.missSince, now)]

\* faceMesh.onResults, after an onFrame that found active set
FaceResults(results) ==
  /\ camera = "running"
  /\ active
  /\ burst < MaxBurst
  /\ burst' = burst + 1
  /\ latestFaceResults' = results
  /\ processFrame("face", results, latestHandResults)
  /\ UNCHANGED <<viz, pause, now, config, pfConfig, latestHandResults, camera, cameraPermission,
                 demoTimer, aiTimer, pendingResets, lifecycle, isLoading, aiResult>>

\* hands.onResults, after an onFrame that found active set
HandResults(results) ==
  /\ camera = "running"
  /\ active
  /\ burst < MaxBurst
  /\ burst' = burst + 1
  /\ latestHandResults' = results
  /\ processFrame("hand", latestFaceResults, results)
  /\ UNCHANGED <<viz, pause, now, config, pfConfig, latestFaceResults, camera, cameraPermission,
                 demoTimer, aiTimer, pendingResets, lifecycle, isLoading, aiResult>>

\* await camera.start() resolves: frames start to flow and, in a mounted
\* component, the AI effect arms its interval and the pause effect runs again
\* for the new cameraPermission
CameraStarted ==
  /\ camera = "idle"
  /\ camera' = IF active /\ showVisualization THEN "stopped" ELSE "running"
  /\ restartPending' = IF active /\ ~showVisualization /\ ~config.demoMode
                       THEN TRUE ELSE restartPending
  /\ cameraPermission' = TRUE
  /\ isLoading' = FALSE
  /\ aiTimer' = IF active /\ ~config.demoMode THEN now ELSE NullTime
  /\ UNCHANGED <<viz, showVisualization, now, burst, score, events, status, config, pfConfig, lastEventTime,
                 missingFaceStartTime, lookingAwayStartTime, talkingStartTime,
                 latestFaceResults, latestHandResults, previousHandLandmarks,
                 demoTimer, pendingResets, frame, lifecycle, aiResult>>

\* the catch branch of camera.start() without its setIsLoading(false)
CameraFailed_KeepsLoading ==
  /\ camera = "idle"
  /\ camera' = "failed"
  /\ cameraPermission' = FALSE
  /\ UNCHANGED <<viz, pause, now, burst, score, events, status, config, pfConfig, lastEventTime,
                 missingFaceStartTime, lookingAwayStartTime, talkingStartTime,
                 latestFaceResults, latestHandResults, previousHandLandmarks,
                 demoTimer, aiTimer, pendingResets, frame, lifecycle, isLoading, aiResult>>

\* await camera.start() rejects
CameraFailed ==
  /\ camera = "idle"
  /\ camera' = "failed"
  /\ cameraPermission' = FALSE
  /\ isLoading' = FALSE
  /\ UNCHANGED <<viz, pause, now, burst, score, events, status, config, pfConfig, lastEventTime,
                 missingFaceStartTime, lookingAwayStartTime, talkingStartTime,
                 latestFaceResults, latestHandResults, previousHandLandmarks,
                 demoTimer, aiTimer, pendingResets, frame, lifecycle, aiResult>>

\* setConfig with another exam mode: processFrame is re-created (examMode is in
\* its dependency list) and processFrameRef follows
SetExamMode(mode) ==
  /\ active
  /\ mode # config.examMode
  /\ config' = [config EXCEPT !.examMode = mode]
  /\ pfConfig' = Captured(config')
  /\ UNCHANGED <<viz, pause, now, burst, score, events, status, lastEventTime,
                 missingFaceStartTime, lookingAwayStartTime, talkingStartTime,
                 latestFaceResults, latestHandResults, previousHandLandmarks,
                 camera, cameraPermission, demoTimer, aiTimer, pendingResets, frame,
                 lifecycle, isLoading, aiResult>>

\* setConfig toggling privacyMode: captureScreenshot, logEvent and processFrame
\* are re-created and processFrameRef follows
TogglePrivacyMode ==
  /\ active
  /\ config' = [config EXCEPT !.privacyMode = ~@]
  /\ pfConfig' = Captured(config')
  /\ UNCHANGED <<viz, pause, now, burst, score, events, status, lastEventTime,
                 missingFaceStartTime, lookingAwayStartTime, talkingStartTime,
                 latestFaceResults, latestHandResults, previousHandLandmarks,
                 camera, cameraPermission, demoTimer, aiTimer, pendingResets, frame,
                 lifecycle, isLoading, aiResult>>

\* setConfig toggling invisibleProctor: logEvent and processFrame are re-created
ToggleInvisibleProctor ==
  /\ active
  /\ config' = [config EXCEPT !.invisibleProctor = ~@]
  /\ pfConfig' = Captured(config')
  /\ UNCHANGED <<viz, pause, now, burst, score, events, status, lastEventTime,
                 missingFaceStartTime, lookingAwayStartTime, talkingStartTime,
                 latestFaceResults, latestHandResults, previousHandLandmarks,
                 camera, cameraPermission, demoTimer, aiTimer, pendingResets, frame,
                 lifecycle, isLoading, aiResult>>

\* setConfig toggling voiceActivityDetection: no dependency list names it, so
\* processFrameRef keeps the closure it holds
ToggleVoiceActivityDetection ==
  /\ active
  /\ config' = [config EXCEPT !.voiceActivityDetection = ~@]
  /\ UNCHANGED <<viz, pause, now, burst, score, events, status, pfConfig, lastEventTime,
                 missingFaceStartTime, lookingAwayStartTime, talkingStartTime,
                 latestFaceResults, latestHandResults, previousHandLandmarks,
                 camera, cameraPermission, demoTimer, aiTimer, pendingResets, frame,
                 lifecycle, isLoading, aiResult>>

\* setConfig toggling demoMode: the demo effect, the AI effect and the pause
\* effect re-run.  The camera's onFrame closure keeps the demoMode of the
\* mount, so frames go on.
ToggleDemoMode ==
  /\ active
  /\ config' = [config EXCEPT !.demoMode = ~@]
  /\ demoTimer' = IF config'.demoMode THEN now ELSE NullTime
  /\ aiTimer' = IF ~config'.demoMode /\ cameraPermission THEN now ELSE NullTime
  /\ camera' = IF showVisualization /\ camera = "running" THEN "stopped" ELSE camera
  /\ restartPending' = IF ~showVisualization /\ camera # "none" /\ cameraPermission
                          /\ ~config'.demoMode
                       THEN TRUE ELSE restartPending
  /\ UNCHANGED <<viz, showVisualization, now, burst, score, events, status, pfConfig,
                 lastEventTime,
                 missingFaceStartTime, lookingAwayStartTime, talkingStartTime,
                 latestFaceResults, latestHandResults, previousHandLandmarks,
                 cameraPermission, pendingResets, frame,
                 lifecycle, isLoading, aiResult>>

\* the demo interval's callback; hit is Math.random() > 0.95
DemoTick(hit) ==
  /\ DemoTickDue
  /\ demoTimer' = now
  /\ IF hit
     THEN \E c \in {logEvent([calls |-> <<>>, last |-> lastEventTime, ev |-> events],
                               now, "LOOKING_AWAY", "LOW", Captured(config))} :
             /\ events' = c.ev
             /\ lastEventTime' = c.last
             /\ score' = penaltyScore(score)
             /\ status' = [status EXCEPT !.isLookingAway = TRUE]
             /\ pendingResets' = pendingResets \cup {now + 1000}
             /\ frame' = [NoFrame EXCEPT !.op = "demo", !.calls = c.calls,
                                         !.awaySince = frame.awaySince,
                                         !.talkSince = frame.talkSince,
                                         !.missSince = frame.missSince]
     ELSE UNCHANGED <<events, lastEventTime, score, status, pendingResets, frame>>
  /\ UNCHANGED <<viz, pause, now, burst, config, pfConfig,
                 missingFaceStartTime, lookingAwayStartTime, talkingStartTime,
                 latestFaceResults, latestHandResults, previousHandLandmarks,
                 camera, cameraPermission, aiTimer, lifecycle, isLoading, aiResult>>

\* setTimeout(() => setStatus(prev => ({...prev, isLookingAway: false})), 1000);
\* nothing clears this timeout
GazeReset(due) ==
  /\ due \in pendingResets
  /\ now >= due
  /\ pendingResets' = pendingResets \ {due}
  /\ status' = [status EXCEPT !.isLookingAway = FALSE]
  /\ UNCHANGED <<viz, pause, now, burst, score, events, config, pfConfig, lastEventTime,
                 missingFaceStartTime, lookingAwayStartTime, talkingStartTime,
                 latestFaceResults, latestHandResults, previousHandLandmarks,
                 camera, cameraPermission, demoTimer, aiTimer, frame,
                 lifecycle, isLoading, aiResult>>

\* the AI interval's callback, at the moment analyzeFrameWithPuter has resolved
AIResult(outcome) ==
  /\ active
  /\ cameraPermission
  /\ ~config.demoMode
  /\ now - aiTimer >= 6000
  /\ aiTimer' = now
  /\ aiResult' = analyzeFrameWithPuter(outcome)
  /\ IF aiResult' = "SUSPICIOUS"
     THEN \E c \in {logEvent([calls |-> <<>>, last |-> lastEventTime, ev |-> events],
                               now, "LOOKING_AWAY", "HIGH", Captured(config))} :
             /\ events' = c.ev
             /\ lastEventTime' = c.last
             /\ score' = penaltyScore(score)
             /\ frame' = [NoFrame EXCEPT !.op = "ai", !.calls = c.calls,
                                         !.awaySince = frame.awaySince,
                                         !.talkSince = frame.talkSince,
                                         !.missSince = frame.missSince]
     ELSE UNCHANGED <<events, lastEventTime, score, frame>>
  /\ UNCHANGED <<viz, pause, now, burst, status, config, pfConfig,
                 missingFaceStartTime, lookingAwayStartTime, talkingStartTime,
                 latestFaceResults, latestHandResults, previousHandLandmarks,
                 camera, cameraPermission, demoTimer, pendingResets,
                 lifecycle, isLoading>>

\* window.FaceMesh, window.Hands and window.Camera become available
LibrariesLoaded ==
  /\ ~libs
  /\ libs' = TRUE
  /\ UNCHANGED <<viz, pause, now, burst, score, events, status, config, pfConfig, lastEventTime,
                 missingFaceStartTime, lookingAwayStartTime, talkingStartTime,
                 latestFaceResults, latestHandResults, previousHandLandmarks,
                 camera, cameraPermission, demoTimer, aiTimer, pendingResets, frame,
                 active, initRetry, loadingTimer, isLoading, detectors, aiResult>>

\* initAI run by its retry timer.  It does not read `active`; videoRef.current
\* is null once the component is unmounted, so only a mounted component gets
\* a camera.
InitAIRetry ==
  /\ TimerDue(initRetry)
  /\ IF ~libs
     THEN /\ initRetry' = now + 500
          /\ UNCHANGED <<loadingTimer, detectors, camera>>
     ELSE /\ initRetry' = NullTime
          /\ loadingTimer' = NullTime
          /\ detectors' = "open"
          /\ camera' = IF active THEN "idle" ELSE camera
  /\ UNCHANGED <<viz, pause, now, burst, score, events, status, config, pfConfig, lastEventTime,
                 missingFaceStartTime, lookingAwayStartTime, talkingStartTime,
                 latestFaceResults, latestHandResults, previousHandLandmarks,
                 cameraPermission, demoTimer, aiTimer, pendingResets, frame,
                 active, libs, isLoading, aiResult>>

\* the loading timeout's callback
LoadingTimeout ==
  /\ TimerDue(loadingTimer)
  /\ loadingTimer' = NullTime
  /\ isLoading' = IF active THEN FALSE ELSE isLoading
  /\ UNCHANGED <<viz, pause, now, burst, score, events, status, config, pfConfig, lastEventTime,
                 missingFaceStartTime, lookingAwayStartTime, talkingStartTime,
                 latestFaceResults, latestHandResults, previousHandLandmarks,
                 camera, cameraPermission, demoTimer, aiTimer, pendingResets, frame,
                 active, libs, initRetry, detectors, aiResult>>

\* init() of a mounted Visualization: without window.THREE, window.Hands or
\* window.Camera it arms setTimeout(init, 300) and returns; with them it sets
\* the scene up, creates the hand detector and the camera feed and awaits
\* cameraFeed.start()
VizInit(v) == IF libs /\ v.three THEN "starting" ELSE "retry"

\* the cleanup of the Visualization's effect: it clears `active`, cancels the
\* animation frame, the status interval and the resize listeners that exist
\* at that moment, and stops the camera feed.  The retry timer is not
\* cleared, and while cameraFeed.start() is pending animationId is 0,
\* statusInterval is undefined and resizeHandlers is empty.
VizCleanup(v) ==
  [v EXCEPT !.phase = "none",
            !.pendingStart = @ \/ v.phase = "starting",
            !.orphans = IF v.phase = "retry" THEN @ \cup {"retry"} ELSE @]

\* window.THREE becomes available
VizLibrariesLoaded ==
  /\ ~viz.three
  /\ viz' = [viz EXCEPT !.three = TRUE]
  /\ UNCHANGED app

\* the retry timer of the mounted Visualization fires: init() runs again
VizInitRetry ==
  /\ viz.phase = "retry"
  /\ viz' = [viz EXCEPT !.phase = VizInit(viz)]
  /\ UNCHANGED app

\* the retry timer of a torn-down Visualization fires: init() finds `active`
\* false and returns
VizOrphanRetry ==
  /\ "retry" \in viz.orphans
  /\ viz' = [viz EXCEPT !.orphans = @ \ {"retry"}]
  /\ UNCHANGED app

\* await cameraFeed.start() of the mounted Visualization settles (a rejection
\* is caught and sets the status line): init() goes on to animate(), the
\* resize listener and the status interval
VizCameraSettled ==
  /\ viz.phase = "starting"
  /\ viz' = [viz EXCEPT !.phase = "ready"]
  /\ UNCHANGED app

\* await cameraFeed.start() of a torn-down Visualization settles: the rest of
\* init() runs all the same, `active` is not read after the await
VizOrphanSettled ==
  /\ viz.pendingStart
  /\ viz' = [viz EXCEPT !.pendingStart = FALSE,
                        !.orphans = @ \cup {"animation", "resize", "interval"}]
  /\ UNCHANGED app

\* setShowVisualization(true): the Visualization mounts and the pause effect
\* stops the main camera; a start() that has not settled is not cancelled by
\* stop()
OpenVisualization ==
  /\ active
  /\ ~showVisualization
  /\ showVisualization' = TRUE
  /\ viz' = [viz EXCEPT !.phase = VizInit(viz)]
  /\ camera' = IF camera = "running" THEN "stopped" ELSE camera
  /\ UNCHANGED <<restartPending, now, burst, score, events, status, config, pfConfig,
                 lastEventTime,
                 missingFaceStartTime, lookingAwayStartTime, talkingStartTime,
                 latestFaceResults, latestHandResults, previousHandLandmarks,
                 cameraPermission, demoTimer, aiTimer, pendingResets, frame,
                 lifecycle, isLoading, aiResult>>

\* onClose of the visualization: the pause effect restarts the main camera
CloseVisualization ==
  /\ active
  /\ showVisualization
  /\ showVisualization' = FALSE
  /\ viz' = VizCleanup(viz)
  /\ restartPending' = IF camera # "none" /\ cameraPermission /\ ~config.demoMode
                       THEN TRUE ELSE restartPending
  /\ UNCHANGED <<now, burst, score, events, status, config, pfConfig, lastEventTime,
                 missingFaceStartTime, lookingAwayStartTime, talkingStartTime,
                 latestFaceResults, latestHandResults, previousHandLandmarks,
                 camera, cameraPermission, demoTimer, aiTimer, pendingResets, frame,
                 lifecycle, isLoading, aiResult>>

\* the camera.start() of the pause effect settles: resolved, the camera
\* delivers frames again; rejected, the catch handler logs the error
RestartSettled(resolved) ==
  /\ restartPending
  /\ restartPending' = FALSE
  /\ camera' = IF resolved THEN "running" ELSE camera
  /\ UNCHANGED <<viz, showVisualization, now, burst, score, events, status, config, pfConfig,
                 lastEventTime,
                 missingFaceStartTime, lookingAwayStartTime, talkingStartTime,
                 latestFaceResults, latestHandResults, previousHandLandmarks,
                 cameraPermission, demoTimer, aiTimer, pendingResets, frame,
                 lifecycle, isLoading, aiResult>>

\* the component unmounts: the cleanups of the initialization effect, the demo
\* effect and the AI effect run, and that of a Visualization that is shown
Unmount ==
  /\ active
  /\ active' = FALSE
  /\ camera' = IF camera = "running" THEN "stopped" ELSE camera
  /\ detectors' = IF detectors = "open" THEN "closed" ELSE detectors
  /\ demoTimer' = NullTime
  /\ aiTimer' = NullTime
  /\ viz' = IF showVisualization THEN VizCleanup(viz) ELSE viz
  /\ UNCHANGED <<pause, now, burst, score, events, status, config, pfConfig, lastEventTime,
                 missingFaceStartTime, lookingAwayStartTime, talkingStartTime,
                 latestFaceResults, latestHandResults, previousHandLandmarks,
                 cameraPermission, pendingResets, frame,
                 libs, initRetry, loadingTimer, isLoading, aiResult>>

(* The whole session in the initial exam mode: every handler but the exam   *)
(* mode selector, over detector results that raise every kind of event.     *)
Next ==
  \/ Tick(CoarseTickMs, Horizon)
  \/ CameraStarted
  \/ CameraFailed
  \/ \E results \in {NoFaces, Results(<<FaceYaw30>>), Results(<<FaceTalking>>), TwoFaces} :
        FaceResults(results)
  \/ \E results \in {NoHands, Results(<<HandNear>>), Results(<<HandTiny>>)} :
        HandResults(results)
  \/ ToggleDemoMode
  \/ \E hit \in BOOLEAN : DemoTick(hit)
  \/ \E due \in pendingResets : GazeReset(due)
  \/ \E outcome \in AIOutcomes : AIResult(outcome)

Spec == Init /\ [][Next]_vars

(* The score under every exam mode.  The second initial state is the state  *)
(* the session is in after DrainFrames two-face frames delivered at         *)
(* StartTime in MCQ mode: it brings the lower end of the score within the   *)
(* horizon.                                                                 *)
RECURSIVE Drained(_, _)
Drained(s, k) == IF k = 0 THEN s ELSE Drained(frameScore(s, 5000, "MCQ"), k - 1)

InitDrained ==
  /\ now = StartTime
  /\ burst = MaxBurst
  /\ score = Drained(100000, DrainFrames)
  /\ events = <<[type |-> "MULTIPLE_FACES", severity |-> "HIGH", timestamp |-> StartTime,
                 screenshot |-> captureScreenshot(INITIAL_CONFIG)]>>
  /\ status = [INITIAL_STATUS EXCEPT !.faceDetected = TRUE, !.multipleFaces = TRUE]
  /\ config = INITIAL_CONFIG
  /\ pfConfig = Captured(INITIAL_CONFIG)
  /\ lastEventTime = StartTime
  /\ missingFaceStartTime = NullTime
  /\ lookingAwayStartTime = NullTime
  /\ talkingStartTime = NullTime
  /\ latestFaceResults = TwoFaces
  /\ latestHandResults = NullResults
  /\ previousHandLandmarks = <<>>
  /\ camera = "running"
  /\ cameraPermission = TRUE
  /\ demoTimer = NullTime
  /\ aiTimer = StartTime
  /\ pendingResets = {}
  /\ frame = [NoFrame EXCEPT !.op = "face", !.ded = 5000, !.calls = <<"MULTIPLE_FACES">>]
  /\ active = TRUE
  /\ libs = TRUE
  /\ initRetry = NullTime
  /\ loadingTimer = NullTime
  /\ isLoading = FALSE
  /\ detectors = "open"
  /\ aiResult = "INIT"
  /\ showVisualization = FALSE
  /\ restartPending = FALSE
  /\ viz = NoVisualization

NextModes ==
  \/ Tick(CoarseTickMs, Horizon)
  \/ CameraStarted
  \/ \E results \in {Results(<<FaceCenter>>), TwoFaces} : FaceResults(results)
  \/ \E results \in {Results(<<HandNear>>)} : HandResults(results)
  \/ \E mode \in ExamModes : SetExamMode(mode)
  \/ ToggleDemoMode
  \/ \E hit \in BOOLEAN : DemoTick(hit)
  \/ \E due \in pendingResets : GazeReset(due)
  \/ \E outcome \in AIOutcomes : AIResult(outcome)

SpecModes == (Init \/ InitDrained) /\ [][NextModes]_vars

(* A short session on the fine clock, over every shape of hand result.      *)
NextFine ==
  \/ Tick(TickMs, FineHorizon)
  \/ CameraStarted
  \/ \E results \in {NoFaces, Results(<<FaceYaw30>>), TwoFaces} : FaceResults(results)
  \/ \E results \in {NoHands, Results(<<HandNear>>), Results(<<HandFar>>),
                      Results(<<HandShort>>)} :
        HandResults(results)

SpecFine == Init /\ [][NextFine]_vars

(* isLookingAway over a grid of head poses and every exam mode, within one  *)
(* period of the clock.                                                     *)
PoseYaws    == {0, 20, 30}
PosePitches == {-30, -21, -20, 0, 20, 21, 50, 80, 81}

\* the face whose yaw and pitch are yaw/100 and pitch/100
PoseFace(yaw, pitch) == Face(Pt(50 + yaw, 50 + pitch), Pt(50, 70), Pt(50, 70))

NextPose ==
  \/ CameraStarted
  \/ \E mode \in ExamModes : SetExamMode(mode)
  \/ \E yaw \in PoseYaws, pitch \in PosePitches :
        FaceResults(Results(<<PoseFace(yaw, pitch)>>))

SpecPose == Init /\ [][NextPose]_vars

(* A steady stream of face frames: the clock advances only after a frame    *)
(* was processed, so every period of the clock has its frame.  The second   *)
(* face of TwoAway keeps MULTIPLE_FACES events coming while the first one   *)
(* looks away.                                                              *)
FaceAwayTalking == Face(Pt(80, 50), Pt(50, 65), Pt(50, 75))  \* yaw 0.30, mouth 0.10
TwoAway == Results(<<FaceYaw30, FaceCenter>>)

LiveTick ==
  /\ burst > 0
  /\ Tick(CoarseTickMs, LiveHorizon)

NextLive ==
  \/ LiveTick
  \/ CameraStarted
  \/ \E results \in {NoFaces, Results(<<FaceYaw30>>), Results(<<FaceTalking>>),
                      Results(<<FaceAwayTalking>>), TwoAway} :
        FaceResults(results)

SpecLive == Init /\ [][NextLive]_vars

(* The toggles of the control panel in the initial exam mode, over frames   *)
(* that talk and frames that log at once; the demo interval draws no hit.   *)
NextConfig ==
  \/ Tick(TickMs, FineHorizon)
  \/ CameraStarted
  \/ \E results \in {Results(<<FaceCenter>>), Results(<<FaceTalking>>), TwoFaces} :
        FaceResults(results)
  \/ TogglePrivacyMode
  \/ ToggleInvisibleProctor
  \/ ToggleVoiceActivityDetection
  \/ ToggleDemoMode
  \/ DemoTick(FALSE)

SpecConfig == Init /\ [][NextConfig]_vars

(* Mount to teardown on the fine clock.  The second initial state is the    *)
(* mount that finds the detector libraries not yet loaded: initAI has armed *)
(* its retry and the loading timeout is pending.                            *)
InitLoading ==
  /\ now = StartTime
  /\ burst = 0
  /\ score = 100000
  /\ events = <<>>
  /\ status = INITIAL_STATUS
  /\ config = INITIAL_CONFIG
  /\ pfConfig = Captured(INITIAL_CONFIG)
  /\ lastEventTime = 0
  /\ missingFaceStartTime = NullTime
  /\ lookingAwayStartTime = NullTime
  /\ talkingStartTime = NullTime
  /\ latestFaceResults = NullResults
  /\ latestHandResults = NullResults
  /\ previousHandLandmarks = <<>>
  /\ camera = "none"
  /\ cameraPermission = FALSE
  /\ demoTimer = NullTime
  /\ aiTimer = NullTime
  /\ pendingResets = {}
  /\ frame = NoFrame
  /\ active = TRUE
  /\ libs = FALSE
  /\ initRetry = StartTime + 500
  /\ loadingTimer = StartTime + 3000
  /\ isLoading = TRUE
  /\ detectors = "none"
  /\ aiResult = "INIT"
  /\ showVisualization = FALSE
  /\ restartPending = FALSE
  /\ viz = NoVisualization

NextTeardown ==
  \/ Tick(TickMs, Horizon)
  \/ LibrariesLoaded
  \/ InitAIRetry
  \/ LoadingTimeout
  \/ CameraStarted
  \/ CameraFailed
  \/ FaceResults(Results(<<FaceCenter>>))
  \/ ToggleDemoMode
  \/ \E hit \in BOOLEAN : DemoTick(hit)
  \/ \E due \in pendingResets : GazeReset(due)
  \/ \E outcome \in AIOutcomes : AIResult(outcome)
  \/ Unmount

SpecTeardown == (Init \/ InitLoading) /\ [][NextTeardown]_vars

(* The visualization opened and closed at any moment of the mount, of the    *)
(* camera start and of a restart of the camera.                              *)
NextPause ==
  \/ Tick(TickMs, Horizon)
  \/ LibrariesLoaded
  \/ InitAIRetry
  \/ LoadingTimeout
  \/ CameraStarted
  \/ CameraFailed
  \/ FaceResults(Results(<<FaceCenter>>))
  \/ ToggleDemoMode
  \/ DemoTick(FALSE)
  \/ OpenVisualization
  \/ CloseVisualization
  \/ \E resolved \in BOOLEAN : RestartSettled(resolved)

SpecPause == (Init \/ InitLoading) /\ [][NextPause]_vars

(* The mount up to the end of loading.  Timer callbacks that are due run,    *)
(* the clock advances, and a camera.start() that was called settles, one way *)
(* or the other; the libraries may load at any time or never.               *)
NextLoading ==
  \/ Tick(TickMs, Horizon)
  \/ LibrariesLoaded
  \/ InitAIRetry
  \/ LoadingTimeout
  \/ CameraStarted
  \/ CameraFailed
  \/ FaceResults(Results(<<FaceCenter>>))

SpecLoading ==
  /\ Init \/ InitLoading
  /\ [][NextLoading]_vars
  /\ WF_vars(Tick(TickMs, Horizon))
  /\ WF_vars(InitAIRetry)
  /\ WF_vars(LoadingTimeout)
  /\ WF_vars(CameraStarted \/ CameraFailed)

(* The Visualization mounted and torn down at any moment of its own        *)
(* initialization, next to the mount of the App.                             *)
NextVisualization ==
  \/ Tick(TickMs, FineHorizon)
  \/ LibrariesLoaded
  \/ InitAIRetry
  \/ CameraStarted
  \/ CameraFailed
  \/ \E resolved \in BOOLEAN : RestartSettled(resolved)
  \/ OpenVisualization
  \/ CloseVisualization
  \/ VizLibrariesLoaded
  \/ VizInitRetry
  \/ VizOrphanRetry
  \/ VizCameraSettled
  \/ VizOrphanSettled
  \/ Unmount

SpecVisualization == (Init \/ InitLoading) /\ [][NextVisualization]_vars

(* Malformed and absent landmark data: face sets that lack one of the        *)
(* points the application reads, a short hand set, empty results, and the   *)
(* null results the refs hold before a detector has called back.            *)
FaceNoNose     == Face(NoPoint, Pt(50, 70), Pt(50, 70))
FaceNoLips     == Face(Pt(50, 50), NoPoint, NoPoint)
FaceNoCheek    == [FaceYaw30 EXCEPT !.leftCheek = NoPoint]
FaceNoChin     == [FaceTalking EXCEPT !.chin = NoPoint]
FaceNoForehead == [FaceTalking EXCEPT !.forehead = NoPoint]

NextMalformed ==
  \/ Tick(TickMs, FineHorizon)
  \/ CameraStarted
  \/ \E results \in {NoFaces, Results(<<FaceCenter>>), Results(<<FaceNoNose>>),
                      Results(<<FaceNoLips>>), Results(<<FaceNoCheek>>),
                      Results(<<FaceNoChin>>), Results(<<FaceNoForehead>>)} :
        FaceResults(results)
  \/ \E results \in {NoHands, Results(<<HandShort>>), Results(<<HandNear>>)} :
        HandResults(results)

SpecMalformed == Init /\ [][NextMalformed]_vars

----------------------------------------------------------------------------
(* Claims *)

\* a step that is one run of processFrame, from either detector's callback
FrameStep == burst' = burst + 1

\* C1: in every reachable state the integrity score is within [0, 100].
C1_ScoreInRange == 0 <= score /\ score <= 100000

\* C1 witness: a frame whose deduction was cut off at the lower end of the range.
C1_Witness == score = 0 /\ frame.op \in {"face", "hand"} /\ frame.ded > 0

\* C2: a logEvent call made less than 2000 ms after the last appended event
\* appends nothing and leaves the log and the last-event timestamp unchanged.
C2_Debounce ==
  [][now - lastEventTime < 2000 => events' = events /\ lastEventTime' = lastEventTime]_vars

\* C2 witness: the frame just processed called logEvent 500 ms after the only
\* event of the log.
C2_Witness ==
  /\ burst > 0
  /\ frame.calls # <<>>
  /\ now - lastEventTime = 500
  /\ Len(events) = 1

\* C3 (as stated): in MCQ mode a frame whose face has yaw 0.30 is flagged
\* isLookingAway at once, and a frame applies the looking-away deduction or
\* appends a LOOKING_AWAY event only when the frames have been flagged
\* isLookingAway without interruption for at least 2000 ms.
C3_PersistedContinuously ==
  [][FrameStep /\ pfConfig.examMode = "MCQ" =>
       /\ (/\ latestFaceResults'.present
           /\ Len(latestFaceResults'.sets) > 0
           /\ latestFaceResults'.sets[1].noseTip = Pt(80, 50)
           => status'.isLookingAway)
       /\ (frame'.laDed \/ "LOOKING_AWAY" \in {frame'.calls[i] : i \in DOMAIN frame'.calls}
             => /\ frame'.awaySince # NullTime
                /\ now - frame'.awaySince >= 2000)]_vars

\* C4: every MULTIPLE_FACES event of the log has severity HIGH and no two of
\* them are less than 2000 ms apart.
C4_MultipleFaces ==
  \A j \in DOMAIN events :
    events[j].type = "MULTIPLE_FACES" =>
      /\ events[j].severity = "HIGH"
      /\ \A i \in 1..(j - 1) :
           events[i].type = "MULTIPLE_FACES" =>
             events[j].timestamp - events[i].timestamp >= 2000

\* C4 witness: two MULTIPLE_FACES events exactly one debounce window apart, with
\* two-face frames in between.
C4_Witness ==
  /\ Len(events) = 2
  /\ events[1].type = "MULTIPLE_FACES"
  /\ events[2].type = "MULTIPLE_FACES"
  /\ events[2].timestamp - events[1].timestamp = 2000
  /\ status.multipleFaces

\* C5: a processed frame in which no detector condition is true applies no
\* deduction and raises the score by 0.05, up to 100.
C5_Recovery ==
  [][FrameStep /\ status'.faceDetected /\ ~status'.multipleFaces
       /\ ~status'.isLookingAway /\ ~status'.isTalking /\ ~status'.handNearFace
       /\ frame'.handDed = 0
       => /\ frame'.ded = 0
          /\ score' = IF score + 50 > 100000 THEN 100000 ELSE score + 50
          /\ (score < 100000 => score' > score)]_vars

\* C5 witness: a clean frame has just raised a score that is still below 100.
C5_Witness ==
  /\ frame.op = "face"
  /\ frame.ded = 0
  /\ status.faceDetected
  /\ ~status.multipleFaces
  /\ score < 100000
  /\ score % 1000 = 50

\* C6: for a face with |yaw| within the yaw threshold, the processed frame flags
\* isLookingAway exactly when pitch < -0.20 (in every exam mode) or pitch is
\* above the upper bound, 0.8 in Written mode and 0.20 in the other modes; so
\* pitch 0.5 is flagged in MCQ mode and not in Written mode.
C6_PitchBand ==
  [][FrameStep /\ latestFaceResults'.present /\ Len(latestFaceResults'.sets) = 1 =>
       LET noseTip == latestFaceResults'.sets[1].noseTip
           yaw     == noseTip[1] - 50
           pitch   == noseTip[2] - 50
           upper   == IF pfConfig.examMode = "Written" THEN 80 ELSE 20
       IN (yaw <= 20 /\ yaw >= -20) =>
            /\ status'.isLookingAway <=> (pitch < -20 \/ pitch > upper)
            /\ (pitch = 50 /\ pfConfig.examMode = "MCQ" => status'.isLookingAway)
            /\ (pitch = 50 /\ pfConfig.examMode = "Written" => ~status'.isLookingAway)]_vars

\* C6 witness: a frame with pitch 0.5 processed in Written mode and not flagged.
C6_Witness ==
  /\ frame.op = "face"
  /\ latestFaceResults.present
  /\ Len(latestFaceResults.sets) = 1
  /\ latestFaceResults.sets[1].noseTip = Pt(50, 100)
  /\ pfConfig.examMode = "Written"
  /\ ~status.isLookingAway

\* C7: a frame whose hand result holds only landmark sets of fewer than 21
\* points applies no hand deduction, appends no hand event and sets no
\* handNearFace flag; its face-derived status flags, its deduction, its events,
\* its start times and its score update are those of the same frame over an
\* empty hand result.
C7_ShortHandIgnored ==
  [][FrameStep /\ latestHandResults'.present /\ Len(latestHandResults'.sets) > 0
       /\ (\A i \in DOMAIN latestHandResults'.sets :
             Len(latestHandResults'.sets[i]) < 21)
       => \E c \in {frameRun(latestFaceResults', NoHands, lastEventTime, events,
                             lookingAwayStartTime, talkingStartTime,
                             missingFaceStartTime, previousHandLandmarks,
                             now, pfConfig)} :
            /\ frame'.handDed = 0
            /\ ~status'.handNearFace
            /\ status' = [c.st EXCEPT !.handsDetected = TRUE]
            /\ frame'.ded = c.ded
            /\ frame'.calls = c.calls
            /\ events' = c.ev
            /\ lastEventTime' = c.last
            /\ lookingAwayStartTime' = c.la
            /\ talkingStartTime' = c.talk
            /\ missingFaceStartTime' = c.miss
            /\ previousHandLandmarks' = previousHandLandmarks
            /\ score' = frameScore(score, c.ded, pfConfig.examMode)]_vars

\* C7 witness: a hand result of one 20-point set, next to the nose of the face,
\* was processed in a frame with two faces: the frame carries the face
\* deduction only.
C7_Witness ==
  /\ frame.op = "hand"
  /\ burst > 0
  /\ latestHandResults.present
  /\ Len(latestHandResults.sets) = 1
  /\ Len(latestHandResults.sets[1]) = 20
  /\ status.multipleFaces
  /\ frame.ded = 5000

\* C8: the timestamps of the events of the log are non-decreasing in log order.
C8_TimestampsOrdered ==
  \A i, j \in DOMAIN events : i < j => events[i].timestamp <= events[j].timestamp

\* C8 witness: a log of three events with increasing timestamps.
C8_Witness ==
  /\ Len(events) = 3
  /\ events[1].timestamp < events[2].timestamp
  /\ events[2].timestamp < events[3].timestamp

\* C9 (as stated): any two LOOKING_AWAY events and any two FACE_MISSING events
\* are more than 5000 ms apart, any two TALKING events more than 4000 ms, any
\* two hand events more than 3000 ms, any two MULTIPLE_FACES events at least
\* 2000 ms.
C9_SameClassWindows ==
  \A j \in DOMAIN events : \A i \in 1..(j - 1) :
    LET d == events[j].timestamp - events[i].timestamp
        HandTypes == {"HAND_NEAR_FACE", "SUSPICIOUS_HAND_MOVEMENT",
                      "SUSPICIOUS_HAND_ACTIVITY"}
    IN /\ (events[i].type = "LOOKING_AWAY" /\ events[j].type = "LOOKING_AWAY" => d > 5000)
       /\ (events[i].type = "FACE_MISSING" /\ events[j].type = "FACE_MISSING" => d > 5000)
       /\ (events[i].type = "TALKING" /\ events[j].type = "TALKING" => d > 4000)
       /\ (events[i].type \in HandTypes /\ events[j].type \in HandTypes => d > 3000)
       /\ (events[i].type = "MULTIPLE_FACES" /\ events[j].type = "MULTIPLE_FACES"
             => d >= 2000)

\* C9 (amended): every event is at least 2000 ms after every earlier event of
\* the log, of any kind; a LOOKING_AWAY event of frame processing (severity
\* MEDIUM) and a FACE_MISSING event are more than 5000 ms after every earlier
\* event, a TALKING event more than 4000 ms, a hand event more than 3000 ms.
\* The LOOKING_AWAY events of the demo tick (LOW) and of the AI flag (HIGH) and
\* the MULTIPLE_FACES events have the 2000 ms window only.
C9_Windows ==
  \A j \in DOMAIN events : \A i \in 1..(j - 1) :
    LET d == events[j].timestamp - events[i].timestamp
        e == events[j]
    IN /\ d >= 2000
       /\ (e.type = "LOOKING_AWAY" /\ e.severity = "MEDIUM" => d > 5000)
       /\ (e.type = "FACE_MISSING" => d > 5000)
       /\ (e.type = "TALKING" => d > 4000)
       /\ (e.type \in {"HAND_NEAR_FACE", "SUSPICIOUS_HAND_MOVEMENT",
                       "SUSPICIOUS_HAND_ACTIVITY"} => d > 3000)

\* C9 witness: frame processing appended a LOOKING_AWAY event to a log that
\* already held an event.
C9_Witness ==
  /\ Len(events) >= 2
  /\ events[Len(events)].type = "LOOKING_AWAY"
  /\ events[Len(events)].severity = "MEDIUM"

\* C10: every step leaves the log unchanged or appends exactly one event at its
\* end, the events already in the log staying as they are and where they are.
C10_AppendOnly ==
  [][\/ events' = events
     \/ /\ Len(events') = Len(events) + 1
        /\ SubSeq(events', 1, Len(events)) = events]_vars

\* C10 witness: the handler that ran last appended an event to a log of two.
C10_Witness ==
  /\ Len(events) = 3
  /\ frame.calls # <<>>
  /\ events[3].timestamp = now
  /\ lastEventTime = now

\* C11: after every processed frame each start timestamp is set if its
\* condition held in the frame and null if it did not: the looking-away and
\* the talking timestamp are null after a frame that did not flag the
\* condition (a frame without a face included), the face-missing timestamp is
\* null after a frame with a face.
C11_StartTimestamps ==
  [][FrameStep =>
       /\ (lookingAwayStartTime' # NullTime) = status'.isLookingAway
       /\ (talkingStartTime' # NullTime) = status'.isTalking
       /\ (missingFaceStartTime' # NullTime) = ~status'.faceDetected]_vars

\* the kind of the event a step appends to the log ("" when it appends none)
Appended == IF Len(events') > Len(events) THEN events'[Len(events')].type ELSE ""

\* C12: a processed frame applies the face-missing deduction or appends a
\* FACE_MISSING event only when the frames without a face have gone on unbroken
\* for more than 3000 ms, and the talking deduction or a TALKING event only
\* when the frames flagged as talking have gone on unbroken for more than
\* 1500 ms; every frame of such a run past its grace period applies the
\* deduction.
C12_GracePeriods ==
  [][FrameStep =>
       /\ (frame'.missDed \/ Appended = "FACE_MISSING")
             => frame'.missSince # NullTime /\ now - frame'.missSince > 3000
       /\ (frame'.talkDed \/ Appended = "TALKING")
             => frame'.talkSince # NullTime /\ now - frame'.talkSince > 1500
       /\ (frame'.missSince # NullTime /\ now - frame'.missSince > 3000)
             => frame'.missDed
       /\ (frame'.talkSince # NullTime /\ now - frame'.talkSince > 1500)
             => frame'.talkDed]_vars

\* the log after the step holds an event of one of the kinds stamped at or after t
Logged(kinds, t) ==
  \E i \in 1..Len(events') : events'[i].type \in kinds /\ events'[i].timestamp >= t

AllKinds == {"LOOKING_AWAY", "FACE_MISSING", "MULTIPLE_FACES", "TALKING",
             "HAND_NEAR_FACE", "SUSPICIOUS_HAND_MOVEMENT", "SUSPICIOUS_HAND_ACTIVITY"}

\* the log before the step holds no event stamped at or after t
Quiet(t) == \A i \in 1..Len(events) : events[i].timestamp < t

\* the frames flagged by a condition have gone on unbroken for more than ms
Lasted(since, ms) == since # NullTime /\ now - since > ms

\* C13 as stated, as a deadline: in a steady stream of frames, once a condition
\* (looking away, talking, face missing) has held in every frame for more than
\* LiveDeadline ms, an event of its own kind was logged during that time,
\* whatever other events were logged.
C13_OwnKindLogged ==
  [][FrameStep =>
       /\ Lasted(frame'.awaySince, LiveDeadline)
             => Logged({"LOOKING_AWAY"}, frame'.awaySince)
       /\ Lasted(frame'.talkSince, LiveDeadline)
             => Logged({"TALKING"}, frame'.talkSince)
       /\ Lasted(frame'.missSince, LiveDeadline)
             => Logged({"FACE_MISSING"}, frame'.missSince)]_vars

\* C13 amended: after every frame of a condition past its grace period the log
\* holds an event of some kind no older than the condition's window (5000 ms
\* for looking away and face missing, 4000 ms for talking), and a frame that
\* finds the log older than that appends an event: of the condition's own kind
\* unless a condition tested earlier in the frame took the slot.
C13_EventsKeepComing ==
  [][FrameStep =>
       /\ Lasted(frame'.awaySince, 2000)
             => /\ Logged(AllKinds, now - 5000)
                /\ Quiet(now - 5000) =>
                      Appended \in {"LOOKING_AWAY", "MULTIPLE_FACES"}
       /\ Lasted(frame'.talkSince, 1500)
             => /\ Logged(AllKinds, now - 4000)
                /\ Quiet(now - 4000) =>
                      Appended \in {"TALKING", "LOOKING_AWAY", "MULTIPLE_FACES"}
       /\ Lasted(frame'.missSince, 3000)
             => /\ Logged(AllKinds, now - 5000)
                /\ Quiet(now - 5000) => Appended = "FACE_MISSING"]_vars

\* the first of two faces has looked away for more than LiveDeadline ms of
\* frames, MULTIPLE_FACES events have been logged meanwhile and no
\* LOOKING_AWAY event ever was
C13_Witness ==
  /\ frame.op = "face"
  /\ burst > 0
  /\ status.multipleFaces
  /\ Lasted(frame.awaySince, LiveDeadline)
  /\ Len(events) >= 3
  /\ \A i \in 1..Len(events) : events[i].type # "LOOKING_AWAY"
  /\ events[Len(events)].timestamp >= now - 2000

\* C14 as stated: on every processed frame the new score is the old one plus
\* the exam mode's multiplier (Coding 1.2, MCQ 1, Written 0.8) times
\* (recovery - deduction), clamped to [0, 100]; the recovery is 0.05 on a
\* frame without deduction and 0 otherwise.
C14_NetDeltaScaled ==
  [][FrameStep =>
       LET m10 == IF config.examMode = "Coding" THEN 12
                  ELSE IF config.examMode = "Written" THEN 8 ELSE 10
           recovery == IF frame'.ded = 0 THEN 50 ELSE 0
           next == score + (m10 * (recovery - frame'.ded)) \div 10
       IN score' = IF next < 0 THEN 0 ELSE IF next > 100000 THEN 100000 ELSE next]_vars

\* C14 amended: on every processed frame the new score is the old one minus
\* the multiplier times the deduction, plus the recovery, clamped to [0, 100];
\* the multiplier scales the deduction only, the recovery of a frame without
\* deduction is 0.05 in every exam mode.
C14_DeductionScaled ==
  [][FrameStep =>
       LET m10 == IF config.examMode = "Coding" THEN 12
                  ELSE IF config.examMode = "Written" THEN 8 ELSE 10
           recovery == IF frame'.ded = 0 THEN 50 ELSE 0
           next == score - (m10 * frame'.ded) \div 10 + recovery
       IN score' = IF next < 0 THEN 0 ELSE IF next > 100000 THEN 100000 ELSE next]_vars

\* a two-face frame in Coding mode has taken 1.2 x 5 points off a full score
C14_Witness ==
  /\ config.examMode = "Coding"
  /\ frame.op = "face"
  /\ burst > 0
  /\ frame.ded = 5000
  /\ score = 94000

\* C15: every run of frame processing over malformed or absent landmark data
\* (null or empty results, a face set lacking the nose, a cheek, the forehead,
\* the chin or the lips, a short hand set) completes without throwing and
\* performs the score update with the deduction of the remaining signals.
C15_NeverThrows ==
  [][FrameStep =>
       /\ ~frame'.threw
       /\ score' = frameScore(score, frame'.ded, pfConfig.examMode)]_vars

\* C16: every processed frame is processed with the values the toggles have
\* at that moment (privacy mode, exam mode, voice-activity detection as frame
\* processing reads them), and no frame is processed while demo mode is on.
C16_TogglesTakeEffect ==
  [][FrameStep =>
       /\ pfConfig.privacyMode = config.privacyMode
       /\ pfConfig.examMode = config.examMode
       /\ pfConfig.voiceActivityDetection = config.voiceActivityDetection
       /\ ~config.demoMode]_vars

\* the first face of the frame's face results has its mouth open beyond the threshold
MouthOpen(faceResults) ==
  /\ faceResults.present
  /\ Len(faceResults.sets) > 0
  /\ LET mouthOpen == calculateMouthOpenness(faceResults.sets[1])
     IN RatioGt(mouthOpen.sqNum * 100, mouthOpen.sqDen, TALK_THRESHOLD * TALK_THRESHOLD)

\* C17: a processed frame is flagged isTalking exactly when it has a face whose
\* mouth-openness ratio exceeds the threshold and the voice-activity-detection
\* toggle is on; while the toggle is off no frame is flagged, applies the
\* talking deduction or appends a TALKING event.
C17_TalkingNeedsToggle ==
  [][FrameStep =>
       /\ status'.isTalking =
            (MouthOpen(latestFaceResults') /\ config.voiceActivityDetection)
       /\ ~config.voiceActivityDetection =>
            ~status'.isTalking /\ ~frame'.talkDed /\ Appended # "TALKING"]_vars

\* C18: an event appended to the log carries a snapshot only if privacy mode
\* is on at the moment it is created; an event created while privacy mode is
\* off has none.
C18_SnapshotNeedsPrivacy ==
  [][Len(events') > Len(events) =>
       (events'[Len(events')].screenshot => config.privacyMode)]_vars

\* the log holds an event with a snapshot and a later one, created after
\* privacy mode was turned off, without
C18_Witness ==
  /\ ~config.privacyMode
  /\ Len(events) >= 2
  /\ events[1].screenshot
  /\ ~events[Len(events)].screenshot
  /\ events[Len(events)].timestamp = now

\* a step that is the AI interval's callback
AIStep == aiTimer' # aiTimer /\ UNCHANGED <<config, camera, active>>

\* C19: a failed remote call is reported as the status ERROR, and an AI
\* callback whose result is not SUSPICIOUS (ERROR included) leaves the score
\* and the log as they were; an AI-flag event (LOOKING_AWAY, HIGH) is appended
\* and 5 points are taken only by an AI callback whose result is SUSPICIOUS.
C19_ErrorLeavesScore ==
  [][/\ AIStep =>
          /\ \A outcome \in AIFailures : analyzeFrameWithPuter(outcome) = "ERROR"
          /\ aiResult' \in AIStatuses
          /\ aiResult' = "SUSPICIOUS" => score' = IF score > 5000 THEN score - 5000 ELSE 0
          /\ aiResult' # "SUSPICIOUS" => score' = score /\ events' = events
     /\ (Appended = "LOOKING_AWAY" /\ events'[Len(events')].severity = "HIGH")
          => AIStep /\ aiResult' = "SUSPICIOUS"]_vars

\* an AI callback has just reported ERROR in a session whose local detection
\* had already logged events and taken points
C19_Witness ==
  /\ aiResult = "ERROR"
  /\ aiTimer = now
  /\ now > StartTime
  /\ Len(events) > 0
  /\ score < 100000

\* C20: once the view is torn down no timer or retry callback it started acts:
\* no step creates a detector, creates and starts a camera, or changes the
\* status, the score or the log.
C20_NothingAfterTeardown ==
  [][~active =>
       /\ detectors' = detectors
       /\ camera = "none" => camera' = "none"
       /\ status' = status
       /\ score' = score
       /\ events' = events]_vars

\* a detector result that holds at least one landmark set
HasSets(results) == results.present /\ Len(results.sets) > 0

\* C22: a face callback replaces the latest face result only and a hand
\* callback the latest hand result only; the one run of frame processing that
\* follows reads both latest results (the status reports a face resp. a hand
\* exactly when the latest result of that detector holds one), completes and
\* updates the score, also when the other result is old or still null.
C22_OneStepOverLatest ==
  [][FrameStep =>
       /\ frame'.op \in {"face", "hand"}
       /\ frame'.op = "face" => latestHandResults' = latestHandResults
       /\ frame'.op = "hand" => latestFaceResults' = latestFaceResults
       /\ status'.faceDetected = HasSets(latestFaceResults')
       /\ status'.handsDetected = HasSets(latestHandResults')
       /\ ~frame'.threw
       /\ score' = frameScore(score, frame'.ded, pfConfig.examMode)]_vars

\* a hand callback has run frame processing before any face result arrived
\* and its hand deduction reached the score
C22_Witness ==
  /\ frame.op = "hand"
  /\ burst > 0
  /\ ~latestFaceResults.present
  /\ HasSets(latestHandResults)
  /\ status.handsDetected
  /\ frame.handDed = 1
  /\ score = 99700

\* the kinds the declaration of IntegrityEvent lists for its type field
IntegrityEventKinds ==
  {"LOOKING_AWAY", "FACE_MISSING", "MULTIPLE_FACES", "TALKING", "HAND_ERROR"}

\* the severities the declaration of IntegrityEvent lists
IntegrityEventSeverities == {"LOW", "MEDIUM", "HIGH"}

\* C23: every event of the log has one of the seven kinds the scorer emits
\* and a severity of LOW, MEDIUM or HIGH, and its kind is one the declared
\* type of IntegrityEvent lists.
C23_DeclaredKindsAdmitEmitted ==
  \A i \in 1..Len(events) :
    /\ events[i].type \in AllKinds
    /\ events[i].severity \in IntegrityEventSeverities
    /\ events[i].type \in IntegrityEventKinds

\* C24: a processed frame declares multiple faces exactly when the latest face
\* result holds more than one landmark set, and every such frame lowers the
\* score by at least 5 times the exam mode's multiplier (down to 0) in that
\* very frame, whether or not a MULTIPLE_FACES event is appended.
C24_MultipleFacesPenalty ==
  [][FrameStep =>
       /\ status'.multipleFaces
            = (latestFaceResults'.present /\ Len(latestFaceResults'.sets) > 1)
       /\ (status'.multipleFaces =>
             /\ frame'.ded >= 5000
             /\ score' = frameScore(score, frame'.ded, config.examMode)
             /\ score' <= Max(0, score - (5000 * multiplier10(config.examMode)) \div 10))]_vars

\* C24 witness: in Coding mode a two-face frame, processed at the instant an
\* event of another kind was logged, has deducted although the debounce kept
\* its MULTIPLE_FACES event out of the log.
C24_Witness ==
  /\ frame.op = "face"
  /\ status.multipleFaces
  /\ frame.ded >= 5000
  /\ config.examMode = "Coding"
  /\ events # <<>>
  /\ events[Len(events)].type = "LOOKING_AWAY"
  /\ events[Len(events)].timestamp = now
  /\ score < 95000

\* C27: analyzeFrameWithPuter resolves with one of SAFE, SUSPICIOUS and ERROR
\* whatever the remote call does: ERROR when the client is not loaded, the
\* call throws or the reply is empty, SUSPICIOUS exactly when the parsed reply
\* carries the status SUSPICIOUS, and SAFE for a reply that does not parse or
\* carries any other status; the AI callback stores that status.
C27_AlwaysAStatus ==
  [][AIStep =>
       /\ aiResult' \in {"SAFE", "SUSPICIOUS", "ERROR"}
       /\ \A outcome \in AIOutcomes :
            /\ analyzeFrameWithPuter(outcome) \in {"SAFE", "SUSPICIOUS", "ERROR"}
            /\ (analyzeFrameWithPuter(outcome) = "ERROR")
                 = (outcome \in {"noPuter", "rejected", "empty"})
            /\ (analyzeFrameWithPuter(outcome) = "SUSPICIOUS") = (outcome = "SUSPICIOUS")
            /\ (outcome \in {"unparsable", "SAFE", "other"}
                  => analyzeFrameWithPuter(outcome) = "SAFE")]_vars

\* C27 witness: the first AI callback of the session, 6000 ms after the
\* camera started, resolved with SAFE and left the score and the log alone.
C27_Witness ==
  /\ aiResult = "SAFE"
  /\ aiTimer = now
  /\ now - StartTime >= 6000
  /\ score = 100000
  /\ events = <<>>

\* the kinds of the hand events
HandKinds == {"HAND_NEAR_FACE", "SUSPICIOUS_HAND_MOVEMENT", "SUSPICIOUS_HAND_ACTIVITY"}

\* the kinds of the first condition, in the order of processFrame, that the
\* frame of the step has acted on (flagged multiple faces, or deducted)
FirstTriggered ==
  IF status'.multipleFaces THEN {"MULTIPLE_FACES"}
  ELSE IF frame'.laDed THEN {"LOOKING_AWAY"}
  ELSE IF frame'.talkDed THEN {"TALKING"}
  ELSE IF frame'.missDed THEN {"FACE_MISSING"}
  ELSE IF frame'.handDed > 0 THEN HandKinds
  ELSE {}

\* the kinds of the first such condition whose own window since the last
\* appended event has passed as well
FirstDue ==
  LET d == now - lastEventTime
  IN IF status'.multipleFaces /\ d >= 2000 THEN {"MULTIPLE_FACES"}
     ELSE IF frame'.laDed /\ d > 5000 THEN {"LOOKING_AWAY"}
     ELSE IF frame'.talkDed /\ d > 4000 THEN {"TALKING"}
     ELSE IF frame'.missDed /\ d > 5000 THEN {"FACE_MISSING"}
     ELSE IF frame'.handDed > 0 /\ d > 3000 THEN HandKinds
     ELSE {}

\* C28 as stated: a processed frame appends at most one event, and an event it
\* appends is of the first condition, in the order MULTIPLE_FACES,
\* LOOKING_AWAY, TALKING (FACE_MISSING without a face), hand events, that
\* triggered in the frame.
C28_FirstTriggeredLogged ==
  [][FrameStep =>
       /\ Len(events') <= Len(events) + 1
       /\ (Appended # "" => Appended \in FirstTriggered)]_vars

\* C28, amended: a processed frame appends at most one event; it appends the
\* event of the first condition in that order that triggered and whose own
\* window since the last appended event has passed (2000 ms for
\* MULTIPLE_FACES, 5000 ms for LOOKING_AWAY and FACE_MISSING, 4000 ms for
\* TALKING, 3000 ms for hand events), and none when there is no such condition.
C28_FirstDueLogged ==
  [][FrameStep =>
       /\ Len(events') <= Len(events) + 1
       /\ Len(frame'.calls) <= 1
       /\ (FirstDue = {} => events' = events)
       /\ (FirstDue # {} => Appended \in FirstDue)]_vars

\* C28 witness: a frame that deducted for looking away, 4000 ms after the last
\* event, has appended a hand event.
C28_Witness ==
  /\ frame.op \in {"face", "hand"}
  /\ frame.laDed
  /\ frame.handDed > 0
  /\ events # <<>>
  /\ events[Len(events)].type \in HandKinds
  /\ events[Len(events)].timestamp = now

\* C29: in every reachable state each of the flags isLookingAway, isTalking,
\* multipleFaces and handNearFace of the displayed status is set only if
\* faceDetected is set.
C29_FlagsNeedFace ==
  (status.isLookingAway \/ status.isTalking \/ status.multipleFaces \/ status.handNearFace)
    => status.faceDetected

\* C30: every step outside frame processing that lowers the score (the
\* 5-point penalty of a demo tick or of an AI result SUSPICIOUS) appends an
\* event to the log in the same step.
C30_PenaltyLogged ==
  [][~FrameStep /\ score' < score =>
       /\ Len(events') = Len(events) + 1
       /\ Appended = "LOOKING_AWAY"
       /\ events'[Len(events')].timestamp = now]_vars

\* C26: while the visualization is shown the main camera is not running,
\* whatever the order of library loading, camera start and opening of the
\* visualization; and closing the visualization restarts the main camera when
\* camera permission was granted and demo mode is off.
C26_PausedWhileShown ==
  [][/\ showVisualization' => camera' # "running"
     /\ (showVisualization /\ ~showVisualization' /\ cameraPermission /\ ~config.demoMode
           => restartPending')]_vars

C21_NothingLeftScheduled == viz.orphans = {}
====
